---- MODULE Spec2Model ----
(***************************************************************************)
(* Ballot and Proposal of go-spacemesh (package types): one-time identity  *)
(* derivation (Initialize), identifier ordering (Compare, SortProposalIDs) *)
(* and the stored projections (DBBallot, DBProposal).                      *)
(*                                                                         *)
(* Scaling.  Identifiers are byte arrays; the model keeps them as          *)
(* sequences of small "bytes" and shortens them (Hash20Length bytes out of *)
(* a Hash32Length-byte hash).  SHA-256 is modelled by a deterministic      *)
(* digest of the encoded bytes whose truncation is never all-zero (the     *)
(* repository relies on that: the all-zero identifier means "unset").      *)
(* ed25519 key recovery is modelled by a recovery scheme over NumKeys      *)
(* keys: a well-formed signature recovers to SOME key for every message,   *)
(* and to the signing key for the signed message.                          *)
(***************************************************************************)
EXTENDS Integers, Sequences, FiniteSets

VARIABLES
    proposal,        \* a Proposal object (its embedded Ballot included)
    ballots,         \* stand-alone Ballot objects, by slot
    dbBallot,        \* the stored DBBallot row (or no row)
    dbProposal,      \* the stored DBProposal row (or no row)
    loadedBallot,    \* the Ballot returned by DBBallot.ToBallot (or none)
    loadedProposal,  \* the Proposal returned by DBProposal.ToProposal (or none)
    ids,             \* a slice of ProposalID handed to SortProposalIDs
    input,           \* the slice as it was first built
    cmp,             \* the last Compare call and its result
    ret,             \* the last Initialize call and its error
    race             \* two workers inside Initialize on the Ballot in slot 1

vars == <<proposal, ballots, dbBallot, dbProposal, loadedBallot, loadedProposal,
          ids, input, cmp, ret, race>>

----------------------------------------------------------------------------
(* Bounds *)

\* number of signing keys
NumKeys == 2
\* layers a ballot can be cast in
MaxLayer == 2
\* bytes kept of an identifier (20 in the program)
Hash20Length == 2
\* bytes of a full hash (32 in the program)
Hash32Length == 3
\* longest slice handed to SortProposalIDs
MaxIDs == 3

Slots == {1, 2}
Keys == 0 .. (NumKeys - 1)

----------------------------------------------------------------------------
(* Sequences of bytes *)

RECURSIVE Zeros(_)
Zeros(n) == IF n = 0 THEN <<>> ELSE <<0>> \o Zeros(n - 1)

RECURSIVE Pow2(_)
Pow2(n) == IF n = 0 THEN 1 ELSE 2 * Pow2(n - 1)

\* the n low binary digits of v, most significant first
RECURSIVE Digits(_, _)
Digits(v, n) == IF n = 0 THEN <<>> ELSE Digits(v \div 2, n - 1) \o <<v % 2>>

\* a position-weighted checksum of a byte string
RECURSIVE Fold(_)
Fold(data) ==
    IF data = <<>> THEN 0
    ELSE Len(data) * (data[Len(data)] + 1) + Fold(SubSeq(data, 1, Len(data) - 1))

\* a length-prefixed list, as the codec writes slices
LenPrefixed(s) == <<Len(s)>> \o s

----------------------------------------------------------------------------
(* Identifiers and hashing *)

EmptyBallotID == Zeros(Hash20Length)
EmptyProposalID == Zeros(Hash20Length)

\* Hash32.ToHash20: the leading bytes of the hash
ToHash20(h) == SubSeq(h, 1, Hash20Length)

\* Hash20.ToHash32: right-padded with zeros
ToHash32(h) == h \o Zeros(Hash32Length - Hash20Length)

\* the digest of data; its leading Hash20Length bytes are never all zero
CalcHash32(data) ==
    Digits(1 + (Fold(data) % (Pow2(Hash20Length) - 1)), Hash20Length)
        \o Digits(Fold(data) + Len(data), Hash32Length - Hash20Length)

\* every value an identifier can take
IDSpace == {Digits(v, Hash20Length) : v \in 0 .. (Pow2(Hash20Length) - 1)}

----------------------------------------------------------------------------
(* Keys and signatures *)

NilKey == [nil |-> TRUE, pub |-> <<>>]

\* signing.NewPublicKey: a key object wrapping the bytes
NewPublicKey(pub) == [nil |-> FALSE, pub |-> pub]

\* PublicKey.Equals: equality of the wrapped bytes
KeyEquals(a, b) == a.pub = b.pub

\* the signature a holder of key k produces on data
Sign(k, data) == <<(k + Fold(data)) % NumKeys>>

\* every value a Signature field can take: nil, a well-formed signature,
\* a signature of the right length that is no valid encoding
Signatures == {<<>>} \cup {<<v>> : v \in 0 .. NumKeys}

\* ed25519.ExtractPublicKey(data, sig)
ExtractPublicKey(data, sig) ==
    IF Len(sig) # 1 \/ sig[1] \notin Keys
    THEN [err |-> TRUE, pub |-> <<>>]
    ELSE [err |-> FALSE,
          pub |-> <<(sig[1] + NumKeys - (Fold(data) % NumKeys)) % NumKeys>>]

----------------------------------------------------------------------------
(* Ballot *)

NilEpochData == [nil |-> TRUE, ActiveSet |-> <<>>, Beacon |-> 0]

\* the InnerBallot of a freshly constructed Ballot: every field zero
ZeroInnerBallot ==
    [AtxID |-> 0,
     EligibilityProof |-> [J |-> 0, Sig |-> <<>>],
     BaseBallot |-> EmptyBallotID,
     AgainstDiff |-> <<>>, ForDiff |-> <<>>, NeutralDiff |-> <<>>,
     RefBallot |-> EmptyBallotID,
     EpochData |-> NilEpochData,
     LayerIndex |-> 0]

\* the payloads a builder populates a Ballot with
InnerBallots ==
    {[AtxID |-> 1,
      EligibilityProof |-> [J |-> l, Sig |-> <<1>>],
      BaseBallot |-> Digits(1, Hash20Length),
      AgainstDiff |-> <<>>, ForDiff |-> f, NeutralDiff |-> <<>>,
      RefBallot |-> IF l = 1 THEN EmptyBallotID ELSE Digits(1, Hash20Length),
      EpochData |-> IF l = 1
                    THEN [nil |-> FALSE, ActiveSet |-> <<1>>, Beacon |-> 1]
                    ELSE NilEpochData,
      LayerIndex |-> l] : l \in 1 .. MaxLayer, f \in {<<>>, <<1>>}}

\* a freshly constructed Ballot
NewBallot ==
    [InnerBallot |-> ZeroInnerBallot, Signature |-> <<>>,
     ballotID |-> EmptyBallotID, smesherID |-> NilKey]

\* codec.Encode(InnerBallot): the fields in schema order
Encode(inner) ==
    <<inner.AtxID, inner.EligibilityProof.J>>
        \o LenPrefixed(inner.EligibilityProof.Sig)
        \o inner.BaseBallot
        \o LenPrefixed(inner.AgainstDiff)
        \o LenPrefixed(inner.ForDiff)
        \o LenPrefixed(inner.NeutralDiff)
        \o inner.RefBallot
        \o (IF inner.EpochData.nil THEN <<0>>
            ELSE <<1>> \o LenPrefixed(inner.EpochData.ActiveSet)
                       \o <<inner.EpochData.Beacon>>)
        \o <<inner.LayerIndex>>

\* Ballot.Bytes
BallotBytes(b) == Encode(b.InnerBallot)

\* Ballot.ID deriving the identifier on demand when none is cached
BallotIDLazy(b) ==
    IF b.ballotID = EmptyBallotID
    THEN ToHash20(CalcHash32(BallotBytes(b)))
    ELSE b.ballotID

\* Ballot.ID
BallotID(b) == b.ballotID

\* Ballot.SmesherID
SmesherID(b) == b.smesherID

\* Ballot.Initialize without its guard
BallotInitializeNoGuard(b) ==
    LET data == BallotBytes(b)
        b1 == [b EXCEPT !.ballotID = ToHash20(CalcHash32(data))]
        ex == ExtractPublicKey(data, b.Signature)
    IN  IF ex.err
        THEN [b |-> b1, err |-> "BallotExtractKey"]
        ELSE [b |-> [b1 EXCEPT !.smesherID = NewPublicKey(ex.pub)], err |-> "nil"]

\* Ballot.Initialize hashing the Signature along with the payload
BallotInitializeHashSig(b) ==
    IF BallotID(b) # EmptyBallotID
    THEN [b |-> b, err |-> "BallotAlreadyInitialized"]
    ELSE LET data == BallotBytes(b)
             b1 == [b EXCEPT !.ballotID =
                        ToHash20(CalcHash32(data \o LenPrefixed(b.Signature)))]
             ex == ExtractPublicKey(data, b.Signature)
         IN  IF ex.err
             THEN [b |-> b1, err |-> "BallotExtractKey"]
             ELSE [b |-> [b1 EXCEPT !.smesherID = NewPublicKey(ex.pub)],
                   err |-> "nil"]

\* Ballot.Initialize dropping a Signature it could not use
BallotInitializeClearSig(b) ==
    IF BallotID(b) # EmptyBallotID
    THEN [b |-> b, err |-> "BallotAlreadyInitialized"]
    ELSE LET data == BallotBytes(b)
             b1 == [b EXCEPT !.ballotID = ToHash20(CalcHash32(data))]
             ex == ExtractPublicKey(data, b.Signature)
         IN  IF ex.err
             THEN [b |-> [b1 EXCEPT !.Signature = <<>>], err |-> "BallotExtractKey"]
             ELSE [b |-> [b1 EXCEPT !.smesherID = NewPublicKey(ex.pub)],
                   err |-> "nil"]

\* Ballot.Initialize taking a second call for a no-op
BallotInitializeIdempotent(b) ==
    IF BallotID(b) # EmptyBallotID
    THEN [b |-> b, err |-> "nil"]
    ELSE LET data == BallotBytes(b)
             b1 == [b EXCEPT !.ballotID = ToHash20(CalcHash32(data))]
             ex == ExtractPublicKey(data, b.Signature)
         IN  IF ex.err
             THEN [b |-> b1, err |-> "BallotExtractKey"]
             ELSE [b |-> [b1 EXCEPT !.smesherID = NewPublicKey(ex.pub)],
                   err |-> "nil"]

\* Ballot.Initialize: the Ballot after the call, and the error returned
BallotInitialize(b) ==
    IF BallotID(b) # EmptyBallotID
    THEN [b |-> b, err |-> "BallotAlreadyInitialized"]
    ELSE LET data == BallotBytes(b)
             b1 == [b EXCEPT !.ballotID = ToHash20(CalcHash32(data))]
             ex == ExtractPublicKey(data, b.Signature)
         IN  IF ex.err
             THEN [b |-> b1, err |-> "BallotExtractKey"]
             ELSE [b |-> [b1 EXCEPT !.smesherID = NewPublicKey(ex.pub)],
                   err |-> "nil"]

----------------------------------------------------------------------------
(* Proposal *)

\* the transaction lists a builder populates a Proposal with
TxLists == {<<>>, <<1>>, <<1, 2>>}

\* a freshly constructed Proposal
NewProposal ==
    [Ballot |-> NewBallot, TxIDs |-> <<>>, Signature |-> <<>>,
     proposalID |-> EmptyProposalID]

\* Proposal.Bytes: the InnerProposal, that is the Ballot's serialized fields
\* (InnerBallot and Signature, not the cached ones) and the TxIDs
ProposalBytes(p) ==
    Encode(p.Ballot.InnerBallot) \o LenPrefixed(p.Ballot.Signature)
        \o LenPrefixed(p.TxIDs)

\* Proposal.ID
ProposalID(p) == p.proposalID

\* Proposal.Initialize deriving the identifier before the signer check
ProposalInitializeEarlyID(p) ==
    IF ProposalID(p) # EmptyProposalID
    THEN [p |-> p, err |-> "ProposalAlreadyInitialized", signerChecked |-> FALSE]
    ELSE LET bi == BallotInitialize(p.Ballot)
             p1 == [p EXCEPT !.Ballot = bi.b,
                             !.proposalID = ToHash20(CalcHash32(ProposalBytes(p)))]
             ex == ExtractPublicKey(ProposalBytes(p1), p1.Signature)
         IN  IF bi.err # "nil"
             THEN [p |-> p1, err |-> bi.err, signerChecked |-> FALSE]
             ELSE IF ex.err
             THEN [p |-> p1, err |-> "ProposalExtractKey", signerChecked |-> FALSE]
             ELSE IF ~KeyEquals(SmesherID(p1.Ballot), NewPublicKey(ex.pub))
             THEN [p |-> p1, err |-> "InconsistentSmesher", signerChecked |-> TRUE]
             ELSE [p |-> p1, err |-> "nil", signerChecked |-> TRUE]

\* Proposal.Initialize recovering the Proposal's signer before it initializes
\* the embedded Ballot
ProposalInitializeSignerFirst(p) ==
    IF ProposalID(p) # EmptyProposalID
    THEN [p |-> p, err |-> "ProposalAlreadyInitialized", signerChecked |-> FALSE]
    ELSE LET ex == ExtractPublicKey(ProposalBytes(p), p.Signature)
             bi == BallotInitialize(p.Ballot)
             p1 == [p EXCEPT !.Ballot = bi.b]
         IN  IF ex.err
             THEN [p |-> p, err |-> "ProposalExtractKey", signerChecked |-> FALSE]
             ELSE IF bi.err # "nil"
             THEN [p |-> p1, err |-> bi.err, signerChecked |-> FALSE]
             ELSE IF ~KeyEquals(SmesherID(p1.Ballot), NewPublicKey(ex.pub))
             THEN [p |-> p1, err |-> "InconsistentSmesher", signerChecked |-> TRUE]
             ELSE [p |-> [p1 EXCEPT !.proposalID =
                                       ToHash20(CalcHash32(ProposalBytes(p1)))],
                   err |-> "nil", signerChecked |-> TRUE]

\* Proposal.Initialize without the comparison of the two signers
ProposalInitializeNoSignerCheck(p) ==
    IF ProposalID(p) # EmptyProposalID
    THEN [p |-> p, err |-> "ProposalAlreadyInitialized", signerChecked |-> FALSE]
    ELSE LET bi == BallotInitialize(p.Ballot)
             p1 == [p EXCEPT !.Ballot = bi.b]
             ex == ExtractPublicKey(ProposalBytes(p1), p1.Signature)
         IN  IF bi.err # "nil"
             THEN [p |-> p1, err |-> bi.err, signerChecked |-> FALSE]
             ELSE IF ex.err
             THEN [p |-> p1, err |-> "ProposalExtractKey", signerChecked |-> FALSE]
             ELSE [p |-> [p1 EXCEPT !.proposalID =
                                       ToHash20(CalcHash32(ProposalBytes(p1)))],
                   err |-> "nil", signerChecked |-> FALSE]

\* Proposal.Initialize: the Proposal after the call, the error returned, and
\* whether the call reached the comparison of the two signers
ProposalInitialize(p) ==
    IF ProposalID(p) # EmptyProposalID
    THEN [p |-> p, err |-> "ProposalAlreadyInitialized", signerChecked |-> FALSE]
    ELSE LET bi == BallotInitialize(p.Ballot)
             p1 == [p EXCEPT !.Ballot = bi.b]
             ex == ExtractPublicKey(ProposalBytes(p1), p1.Signature)
         IN  IF bi.err # "nil"
             THEN [p |-> p1, err |-> bi.err, signerChecked |-> FALSE]
             ELSE IF ex.err
             THEN [p |-> p1, err |-> "ProposalExtractKey", signerChecked |-> FALSE]
             ELSE IF ~KeyEquals(SmesherID(p1.Ballot), NewPublicKey(ex.pub))
             THEN [p |-> p1, err |-> "InconsistentSmesher", signerChecked |-> TRUE]
             ELSE [p |-> [p1 EXCEPT !.proposalID =
                                       ToHash20(CalcHash32(ProposalBytes(p1)))],
                   err |-> "nil", signerChecked |-> TRUE]

----------------------------------------------------------------------------
(* Ordering of identifiers *)

\* BallotID.AsHash32 / ProposalID.AsHash32
AsHash32(id) == ToHash32(id)

\* BallotID.Bytes / ProposalID.Bytes
IDBytes(id) == AsHash32(id)

\* bytes.Compare: -1, 0 or 1
RECURSIVE BytesCompare(_, _)
BytesCompare(a, b) ==
    IF a = <<>> /\ b = <<>> THEN 0
    ELSE IF a = <<>> THEN -1
    ELSE IF b = <<>> THEN 1
    ELSE IF a[1] < b[1] THEN -1
    ELSE IF a[1] > b[1] THEN 1
    ELSE BytesCompare(Tail(a), Tail(b))

\* BallotID.Compare
BallotIDCompare(id, other) == BytesCompare(IDBytes(id), IDBytes(other)) < 0

\* ProposalID.Compare accepting equal identifiers
ProposalIDCompareOrEqual(id, other) ==
    BytesCompare(IDBytes(id), IDBytes(other)) <= 0

\* ProposalID.Compare
ProposalIDCompare(id, other) == BytesCompare(IDBytes(id), IDBytes(other)) < 0

Swap(s, i, j) == [s EXCEPT ![i] = s[j], ![j] = s[i]]

\* the inner loop of sort.Slice's insertion sort:
\* for j := i; j > a && less(j, j-1); j-- { swap(j, j-1) }
RECURSIVE SinkDown(_, _)
SinkDown(s, j) ==
    IF j > 1 /\ ProposalIDCompare(s[j], s[j - 1])
    THEN SinkDown(Swap(s, j, j - 1), j - 1)
    ELSE s

\* the outer loop: for i := a + 1; i < b; i++
RECURSIVE InsertionSort(_, _)
InsertionSort(s, i) ==
    IF i > Len(s) THEN s ELSE InsertionSort(SinkDown(s, i), i + 1)

\* SortProposalIDs: sort.Slice with Compare as less, in place.  sort.Slice
\* sorts a slice this short by insertion alone.
SortProposalIDs(l) == InsertionSort(l, 2)

----------------------------------------------------------------------------
(* Stored projections *)

\* the DBBallot row a Ballot is stored as
ToDBBallot(b) ==
    [row |-> TRUE, InnerBallot |-> b.InnerBallot, ID |-> BallotID(b),
     Signature |-> b.Signature, SmesherID |-> SmesherID(b).pub]

\* the DBProposal row a Proposal is stored as; its Ballot is stored apart
ToDBProposal(p) ==
    [row |-> TRUE, ID |-> ProposalID(p), BallotID |-> BallotID(p.Ballot),
     LayerIndex |-> p.Ballot.InnerBallot.LayerIndex, TxIDs |-> p.TxIDs,
     Signature |-> p.Signature]

\* DBBallot.ToBallot leaving the signer out
ToBallotNoSigner(db) ==
    [InnerBallot |-> db.InnerBallot, Signature |-> db.Signature,
     ballotID |-> db.ID, smesherID |-> NilKey]

\* DBBallot.ToBallot
ToBallot(db) ==
    [InnerBallot |-> db.InnerBallot, Signature |-> db.Signature,
     ballotID |-> db.ID, smesherID |-> NewPublicKey(db.SmesherID)]

\* DBProposal.ToProposal leaving the identifier to be derived again
ToProposalNoID(db, ballot) ==
    [Ballot |-> ballot, TxIDs |-> db.TxIDs, Signature |-> db.Signature,
     proposalID |-> EmptyProposalID]

\* DBProposal.ToProposal
ToProposal(db, ballot) ==
    [Ballot |-> ballot, TxIDs |-> db.TxIDs, Signature |-> db.Signature,
     proposalID |-> db.ID]

----------------------------------------------------------------------------
(* State *)

\* ret records the last Initialize call: the receiver before the call (the
\* Ballot, and for a Proposal call the Proposal), the error returned, and
\* whether the call reached the comparison of the two signers; after is the
\* error of the call made on the same receiver just before, no field having
\* been set in between ("none" when there was no such call); called is the
\* set of (operation, receiver) pairs that have been called so far
NoCall == [op |-> "none", slot |-> 0, err |-> "nil", signerChecked |-> FALSE,
           ballot |-> NewBallot, proposal |-> NewProposal,
           after |-> "none", called |-> {}]

\* cmp records the last Compare call (receiver, argument, result) or the
\* last SortProposalIDs call (the slice as it was passed)
NoCompare == [op |-> "none", id |-> EmptyProposalID, other |-> EmptyProposalID,
              result |-> FALSE, before |-> <<>>]

NoBallotRow == [row |-> FALSE, InnerBallot |-> ZeroInnerBallot,
                ID |-> EmptyBallotID, Signature |-> <<>>, SmesherID |-> <<>>]

NoProposalRow == [row |-> FALSE, ID |-> EmptyProposalID, BallotID |-> EmptyBallotID,
                  LayerIndex |-> 0, TxIDs |-> <<>>, Signature |-> <<>>]

NoBallot == [some |-> FALSE, b |-> NewBallot]

NoProposal == [some |-> FALSE, p |-> NewProposal]

Workers == {1, 2}

\* a worker that has not entered Initialize: its position, the bytes of the
\* identifier its guard has read so far, its locals data, id and pubkey, and
\* the error it returned
IdleWorker == [pc |-> "idle", idRead |-> <<>>, data |-> <<>>, id |-> <<>>,
               pub |-> <<>>, err |-> "nil"]

\* race.start is the Ballot as it was when the two workers were started
NoRace == [started |-> FALSE, start |-> NewBallot,
           w |-> [w \in Workers |-> IdleWorker]]

\* ret once a field has been set: no call to report, the calls made remembered
FieldSet == [NoCall EXCEPT !.called = ret.called]

\* ret once op has returned err on the receiver in slot
Returned(op, slot, err, signerChecked, b, p) ==
    [op |-> op, slot |-> slot, err |-> err, signerChecked |-> signerChecked,
     ballot |-> b, proposal |-> p,
     after |-> IF ret.op = op /\ ret.slot = slot THEN ret.err ELSE "none",
     called |-> ret.called \cup {<<op, slot>>}]

Init ==
    /\ proposal = NewProposal
    /\ ballots = [i \in Slots |-> NewBallot]
    /\ dbBallot = NoBallotRow
    /\ dbProposal = NoProposalRow
    /\ loadedBallot = NoBallot
    /\ loadedProposal = NoProposal
    /\ ids = <<>>
    /\ input = <<>>
    /\ cmp = NoCompare
    /\ ret = NoCall
    /\ race = NoRace

----------------------------------------------------------------------------
(* A Proposal and its embedded Ballot: population, then Initialize.        *)
(* Fields are populated before Initialize; a Ballot whose Initialize       *)
(* failed on its signature can have the Signature set again.               *)

SetBallotInner(inner) ==
    /\ ProposalID(proposal) = EmptyProposalID
    /\ BallotID(proposal.Ballot) = EmptyBallotID
    /\ proposal' = [proposal EXCEPT !.Ballot.InnerBallot = inner]
    /\ ret' = FieldSet
    /\ UNCHANGED <<ballots, dbBallot, dbProposal, loadedBallot, loadedProposal,
                   ids, input, cmp,
                   race>>

SetBallotSignature(sig) ==
    /\ ProposalID(proposal) = EmptyProposalID
    /\ SmesherID(proposal.Ballot).nil
    /\ proposal' = [proposal EXCEPT !.Ballot.Signature = sig]
    /\ ret' = FieldSet
    /\ UNCHANGED <<ballots, dbBallot, dbProposal, loadedBallot, loadedProposal,
                   ids, input, cmp,
                   race>>

SetTxIDs(txs) ==
    /\ ProposalID(proposal) = EmptyProposalID
    /\ proposal' = [proposal EXCEPT !.TxIDs = txs]
    /\ ret' = FieldSet
    /\ UNCHANGED <<ballots, dbBallot, dbProposal, loadedBallot, loadedProposal,
                   ids, input, cmp,
                   race>>

SetProposalSignature(sig) ==
    /\ ProposalID(proposal) = EmptyProposalID
    /\ proposal' = [proposal EXCEPT !.Signature = sig]
    /\ ret' = FieldSet
    /\ UNCHANGED <<ballots, dbBallot, dbProposal, loadedBallot, loadedProposal,
                   ids, input, cmp,
                   race>>

\* p.Ballot.Initialize()
InitializeEmbeddedBallot ==
    LET r == BallotInitialize(proposal.Ballot)
    IN  /\ proposal' = [proposal EXCEPT !.Ballot = r.b]
        /\ ret' = Returned("Ballot.Initialize", 0, r.err, FALSE,
                            proposal.Ballot, NewProposal)
        /\ UNCHANGED <<ballots, dbBallot, dbProposal, loadedBallot, loadedProposal,
                       ids, input, cmp,
                   race>>

\* p.Initialize()
InitializeProposal ==
    LET r == ProposalInitialize(proposal)
    IN  /\ proposal' = r.p
        /\ ret' = Returned("Proposal.Initialize", 0, r.err, r.signerChecked,
                            proposal.Ballot, proposal)
        /\ UNCHANGED <<ballots, dbBallot, dbProposal, loadedBallot, loadedProposal,
                       ids, input, cmp,
                   race>>

PopulateProposal ==
    \/ \E inner \in InnerBallots : SetBallotInner(inner)
    \/ \E sig \in Signatures : SetBallotSignature(sig)
    \/ \E txs \in TxLists : SetTxIDs(txs)
    \/ \E sig \in Signatures : SetProposalSignature(sig)

Next ==
    \/ PopulateProposal
    \/ InitializeEmbeddedBallot
    \/ InitializeProposal

Spec == Init /\ [][Next]_vars

----------------------------------------------------------------------------
(* Stand-alone Ballots *)

SetInner(i, inner) ==
    /\ BallotID(ballots[i]) = EmptyBallotID
    /\ ballots' = [ballots EXCEPT ![i].InnerBallot = inner]
    /\ ret' = FieldSet
    /\ UNCHANGED <<proposal, dbBallot, dbProposal, loadedBallot, loadedProposal,
                   ids, input, cmp,
                   race>>

SetSignature(i, sig) ==
    /\ SmesherID(ballots[i]).nil
    /\ ballots' = [ballots EXCEPT ![i].Signature = sig]
    /\ ret' = FieldSet
    /\ UNCHANGED <<proposal, dbBallot, dbProposal, loadedBallot, loadedProposal,
                   ids, input, cmp,
                   race>>

\* b.Initialize()
InitializeBallot(i) ==
    LET r == BallotInitialize(ballots[i])
    IN  /\ ballots' = [ballots EXCEPT ![i] = r.b]
        /\ ret' = Returned("Ballot.Initialize", i, r.err, FALSE,
                            ballots[i], NewProposal)
        /\ UNCHANGED <<proposal, dbBallot, dbProposal, loadedBallot, loadedProposal,
                       ids, input, cmp,
                   race>>

NextBallot ==
    \/ \E i \in Slots, inner \in InnerBallots : SetInner(i, inner)
    \/ \E i \in Slots, sig \in Signatures : SetSignature(i, sig)
    \/ \E i \in Slots : InitializeBallot(i)

SpecBallot == Init /\ [][NextBallot]_vars

----------------------------------------------------------------------------
(* Two workers calling Initialize on one Ballot with no lock.  The calls   *)
(* race on ballotID and smesherID: the identifier is an array, read and    *)
(* written a byte at a time, so a guard can read a half-written            *)
(* identifier; the signer is a pointer, written at once.                   *)

\* the guard of Initialize on the identifier as read: b.ID() != EmptyBallotID
GuardFails(idRead) == idRead # EmptyBallotID

\* the identifier a worker derives hashing the Signature along with the payload
DeriveIDHashSig(b) ==
    ToHash20(CalcHash32(BallotBytes(b) \o LenPrefixed(b.Signature)))

\* data := b.Bytes(); BallotID(CalcHash32(data).ToHash20())
DeriveID(b) == ToHash20(CalcHash32(BallotBytes(b)))

\* both workers are handed the Unset Ballot in slot 1
StartRace ==
    /\ ~race.started
    /\ BallotID(ballots[1]) = EmptyBallotID
    /\ SmesherID(ballots[1]).nil
    /\ race' = [started |-> TRUE, start |-> ballots[1],
                w |-> [w \in Workers |-> [IdleWorker EXCEPT !.pc = "guard"]]]
    /\ ret' = FieldSet
    /\ UNCHANGED <<proposal, ballots, dbBallot, dbProposal, loadedBallot,
                   loadedProposal, ids, input, cmp>>

\* the guard reads the next byte of b.ballotID; with the last byte read it
\* returns the already-initialized error or goes on
GuardRead(w) ==
    LET me == race.w[w]
        got == Append(me.idRead, ballots[1].ballotID[Len(me.idRead) + 1])
    IN  /\ me.pc = "guard"
        /\ race' = [race EXCEPT !.w[w] =
              IF Len(got) < Hash20Length
              THEN [me EXCEPT !.idRead = got]
              ELSE IF GuardFails(got)
              THEN [me EXCEPT !.idRead = got, !.pc = "done",
                              !.err = "BallotAlreadyInitialized"]
              ELSE [me EXCEPT !.idRead = got, !.pc = "hash"]]
        /\ UNCHANGED <<proposal, ballots, dbBallot, dbProposal, loadedBallot,
                       loadedProposal, ids, input, cmp, ret>>

\* data := b.Bytes() and the hash of it, in the worker's locals
Hash(w) ==
    LET me == race.w[w]
    IN  /\ me.pc = "hash"
        /\ race' = [race EXCEPT !.w[w] =
              [me EXCEPT !.data = BallotBytes(ballots[1]),
                         !.id = DeriveID(ballots[1]), !.pc = "writeID"]]
        /\ UNCHANGED <<proposal, ballots, dbBallot, dbProposal, loadedBallot,
                       loadedProposal, ids, input, cmp, ret>>

\* b.ballotID = ..., the next byte of it; idRead counts the bytes written
WriteIDByte(w) ==
    LET me == race.w[w]
        k == Len(me.idRead) - Hash20Length + 1
    IN  /\ me.pc = "writeID"
        /\ ballots' = [ballots EXCEPT ![1].ballotID[k] = me.id[k]]
        /\ race' = [race EXCEPT !.w[w] =
              [me EXCEPT !.idRead = Append(me.idRead, me.id[k]),
                         !.pc = IF k = Hash20Length THEN "extract" ELSE "writeID"]]
        /\ UNCHANGED <<proposal, dbBallot, dbProposal, loadedBallot,
                       loadedProposal, ids, input, cmp, ret>>

\* pubkey, err := ed25519.ExtractPublicKey(data, b.Signature)
Extract(w) ==
    LET me == race.w[w]
        ex == ExtractPublicKey(me.data, ballots[1].Signature)
    IN  /\ me.pc = "extract"
        /\ race' = [race EXCEPT !.w[w] =
              IF ex.err
              THEN [me EXCEPT !.pc = "done", !.err = "BallotExtractKey"]
              ELSE [me EXCEPT !.pub = ex.pub, !.pc = "writeSigner"]]
        /\ UNCHANGED <<proposal, ballots, dbBallot, dbProposal, loadedBallot,
                       loadedProposal, ids, input, cmp, ret>>

\* b.smesherID = signing.NewPublicKey(pubkey); return nil
WriteSigner(w) ==
    LET me == race.w[w]
    IN  /\ me.pc = "writeSigner"
        /\ ballots' = [ballots EXCEPT ![1].smesherID = NewPublicKey(me.pub)]
        /\ race' = [race EXCEPT !.w[w] = [me EXCEPT !.pc = "done"]]
        /\ UNCHANGED <<proposal, dbBallot, dbProposal, loadedBallot,
                       loadedProposal, ids, input, cmp, ret>>

NextRace ==
    \/ \E inner \in InnerBallots : ~race.started /\ SetInner(1, inner)
    \/ \E sig \in Signatures : ~race.started /\ SetSignature(1, sig)
    \/ StartRace
    \/ \E w \in Workers : GuardRead(w)
    \/ \E w \in Workers : Hash(w)
    \/ \E w \in Workers : WriteIDByte(w)
    \/ \E w \in Workers : Extract(w)
    \/ \E w \in Workers : WriteSigner(w)

SpecRace == Init /\ [][NextRace]_vars

----------------------------------------------------------------------------
(* Storing and loading *)

SaveBallot ==
    /\ ~SmesherID(proposal.Ballot).nil
    /\ dbBallot' = ToDBBallot(proposal.Ballot)
    /\ UNCHANGED <<proposal, ballots, dbProposal, loadedBallot, loadedProposal,
                   ids, input, cmp, ret,
                   race>>

SaveProposal ==
    /\ ProposalID(proposal) # EmptyProposalID
    /\ dbProposal' = ToDBProposal(proposal)
    /\ UNCHANGED <<proposal, ballots, dbBallot, loadedBallot, loadedProposal,
                   ids, input, cmp, ret,
                   race>>

LoadBallot ==
    /\ dbBallot.row
    /\ loadedBallot' = [some |-> TRUE, b |-> ToBallot(dbBallot)]
    /\ UNCHANGED <<proposal, ballots, dbBallot, dbProposal, loadedProposal,
                   ids, input, cmp, ret,
                   race>>

\* the Ballot handed to ToProposal is the one stored under the row's BallotID
LoadProposal ==
    /\ dbProposal.row
    /\ loadedBallot.some
    /\ BallotID(loadedBallot.b) = dbProposal.BallotID
    /\ loadedProposal' = [some |-> TRUE, p |-> ToProposal(dbProposal, loadedBallot.b)]
    /\ UNCHANGED <<proposal, ballots, dbBallot, dbProposal, loadedBallot,
                   ids, input, cmp, ret,
                   race>>

\* the receiver number of the objects rebuilt from stored rows
LoadedSlot == Cardinality(Slots) + 1

\* Initialize() on the Ballot ToBallot returned
InitializeLoadedBallot ==
    /\ loadedBallot.some
    /\ LET r == BallotInitialize(loadedBallot.b)
       IN  /\ loadedBallot' = [loadedBallot EXCEPT !.b = r.b]
           /\ ret' = Returned("Ballot.Initialize", LoadedSlot, r.err, FALSE,
                               loadedBallot.b, NewProposal)
    /\ UNCHANGED <<proposal, ballots, dbBallot, dbProposal, loadedProposal,
                   ids, input, cmp,
                   race>>

\* Initialize() on the Proposal ToProposal returned
InitializeLoadedProposal ==
    /\ loadedProposal.some
    /\ LET r == ProposalInitialize(loadedProposal.p)
       IN  /\ loadedProposal' = [loadedProposal EXCEPT !.p = r.p]
           /\ ret' = Returned("Proposal.Initialize", LoadedSlot, r.err,
                               r.signerChecked, loadedProposal.p.Ballot,
                               loadedProposal.p)
    /\ UNCHANGED <<proposal, ballots, dbBallot, dbProposal, loadedBallot,
                   ids, input, cmp,
                   race>>

NextDB ==
    \/ PopulateProposal
    \/ InitializeEmbeddedBallot
    \/ InitializeProposal
    \/ SaveBallot
    \/ SaveProposal
    \/ LoadBallot
    \/ LoadProposal
    \/ InitializeLoadedBallot
    \/ InitializeLoadedProposal

SpecDB == Init /\ [][NextDB]_vars

----------------------------------------------------------------------------
(* Comparing and sorting identifiers *)

Range(s) == {s[i] : i \in 1 .. Len(s)}

\* every reordering of s
Reorderings(s) ==
    {[i \in 1 .. Len(s) |-> s[f[i]]] :
        f \in {g \in [1 .. Len(s) -> 1 .. Len(s)] :
                  \A i \in 1 .. Len(s), j \in 1 .. Len(s) : g[i] = g[j] => i = j}}

\* the identifiers put in a slice: they differ in the leading byte, in the
\* last byte (a tie on every byte before it), or in both
SampleIDs == {id \in IDSpace : \A k \in 2 .. (Hash20Length - 1) : id[k] = 0}

AppendID(id) ==
    /\ Len(input) < MaxIDs
    /\ input' = Append(input, id)
    /\ ids' = <<>>
    /\ cmp' = NoCompare
    /\ UNCHANGED <<proposal, ballots, dbBallot, dbProposal, loadedBallot,
                   loadedProposal, ret,
                   race>>

CompareBallotIDs(id, other) ==
    /\ cmp' = [op |-> "BallotID.Compare", id |-> id, other |-> other,
               result |-> BallotIDCompare(id, other), before |-> <<>>]
    /\ UNCHANGED <<proposal, ballots, dbBallot, dbProposal, loadedBallot,
                   loadedProposal, ids, input, ret,
                   race>>

CompareProposalIDs(id, other) ==
    /\ cmp' = [op |-> "ProposalID.Compare", id |-> id, other |-> other,
               result |-> ProposalIDCompare(id, other), before |-> <<>>]
    /\ UNCHANGED <<proposal, ballots, dbBallot, dbProposal, loadedBallot,
                   loadedProposal, ids, input, ret,
                   race>>

\* SortProposalIDs(l) for a slice l holding the identifiers in some order
SortIDs(l) ==
    /\ ids' = SortProposalIDs(l)
    /\ cmp' = [op |-> "SortProposalIDs", id |-> EmptyProposalID,
               other |-> EmptyProposalID, result |-> FALSE, before |-> l]
    /\ UNCHANGED <<proposal, ballots, dbBallot, dbProposal, loadedBallot,
                   loadedProposal, input, ret,
                   race>>

NextOrder ==
    \/ \E id \in SampleIDs : AppendID(id)
    \/ \E id \in Range(input), other \in Range(input) : CompareBallotIDs(id, other)
    \/ \E id \in Range(input), other \in Range(input) : CompareProposalIDs(id, other)
    \/ \E l \in Reorderings(input) : SortIDs(l)

SpecOrder == Init /\ [][NextOrder]_vars

----------------------------------------------------------------------------
(* Claims about Initialize *)

\* the key recovered from (data, sig), when there is one
Recoverable(data, sig) == ~ExtractPublicKey(data, sig).err

Recovered(data, sig) == NewPublicKey(ExtractPublicKey(data, sig).pub)

BallotCall(i) == ret.op = "Ballot.Initialize" /\ ret.slot = i

ProposalCall == ret.op = "Proposal.Initialize"

\* C1: when Initialize is called on an Unset Ballot and the key recovery
\* fails, the call returns an error and the Ballot is still Unset: its
\* identifier is EmptyBallotID and no signer is cached.
C1_FailedRecoveryLeavesUnset ==
    \A i \in Slots :
        (BallotCall(i) /\ BallotID(ret.ballot) = EmptyBallotID
            /\ ~Recoverable(BallotBytes(ret.ballot), ret.ballot.Signature))
        => /\ ret.err # "nil"
           /\ BallotID(ballots[i]) = EmptyBallotID
           /\ SmesherID(ballots[i]).nil

\* C2: Proposal.Initialize on an Unset Proposal whose embedded Ballot is
\* already initialized, and whose Proposal signature recovers to the
\* Ballot's signer, succeeds and sets a non-empty Proposal identifier.
C2_InitializeWithInitializedBallot ==
    (ProposalCall
        /\ ProposalID(ret.proposal) = EmptyProposalID
        /\ BallotID(ret.ballot) # EmptyBallotID
        /\ ~SmesherID(ret.ballot).nil
        /\ Recoverable(ProposalBytes(ret.proposal), ret.proposal.Signature)
        /\ KeyEquals(SmesherID(ret.ballot),
                     Recovered(ProposalBytes(ret.proposal), ret.proposal.Signature)))
    => /\ ret.err = "nil"
       /\ ProposalID(proposal) # EmptyProposalID

\* C3: once Initialize has succeeded on a Ballot (a signer is cached) or on
\* a Proposal (its identifier is set), every later Initialize on it fails
\* with the already-initialized error and leaves the object, cached fields,
\* payload and Signature, as it was.
C3_SecondInitializeFails ==
    /\ (ret.op = "Ballot.Initialize" /\ ~SmesherID(ret.ballot).nil)
        => /\ ret.err = "BallotAlreadyInitialized"
           /\ proposal.Ballot = ret.ballot
    /\ (ProposalCall /\ ProposalID(ret.proposal) # EmptyProposalID)
        => /\ ret.err = "ProposalAlreadyInitialized"
           /\ proposal = ret.proposal

C3_Witness ==
    /\ ProposalCall
    /\ ret.err = "ProposalAlreadyInitialized"
    /\ ProposalID(proposal) # EmptyProposalID
    /\ ~SmesherID(proposal.Ballot).nil
    /\ proposal.TxIDs # <<>>

\* C4: for an Unset Proposal with an Unset embedded Ballot whose signature is
\* recoverable, if the Proposal's Signature recovers to another signer than
\* the Ballot's, Proposal.Initialize fails with the signer-mismatch error and
\* the Proposal identifier is still EmptyProposalID.
C4_SignerMismatch ==
    (ProposalCall
        /\ ProposalID(ret.proposal) = EmptyProposalID
        /\ BallotID(ret.ballot) = EmptyBallotID
        /\ Recoverable(BallotBytes(ret.ballot), ret.ballot.Signature)
        /\ Recoverable(ProposalBytes(ret.proposal), ret.proposal.Signature)
        /\ ~KeyEquals(Recovered(BallotBytes(ret.ballot), ret.ballot.Signature),
                      Recovered(ProposalBytes(ret.proposal), ret.proposal.Signature)))
    => /\ ret.err = "InconsistentSmesher"
       /\ ProposalID(proposal) = EmptyProposalID

\* the Ballot signed with one key, the Proposal around it with another
C4_Witness ==
    /\ ProposalCall
    /\ ret.err = "InconsistentSmesher"
    /\ BallotID(ret.ballot) = EmptyBallotID
    /\ ret.ballot.InnerBallot \in InnerBallots
    /\ proposal.TxIDs # <<>>
    /\ ret.ballot.Signature = Sign(0, BallotBytes(ret.ballot))
    /\ ret.proposal.Signature = Sign(1, ProposalBytes(ret.proposal))
    /\ ~SmesherID(proposal.Ballot).nil

\* C5: when initializing the embedded Ballot fails during Proposal.Initialize
\* (the Ballot already has an identifier, or its signature is not
\* recoverable), the call returns the Ballot's failure without comparing the
\* signers, and the Proposal identifier is what it was before the call.
C5_BallotFailurePropagates ==
    (ProposalCall
        /\ ProposalID(ret.proposal) = EmptyProposalID
        /\ \/ BallotID(ret.ballot) # EmptyBallotID
           \/ ~Recoverable(BallotBytes(ret.ballot), ret.ballot.Signature))
    => /\ ret.err = (IF BallotID(ret.ballot) # EmptyBallotID
                     THEN "BallotAlreadyInitialized" ELSE "BallotExtractKey")
       /\ ~ret.signerChecked
       /\ ProposalID(proposal) = ProposalID(ret.proposal)

C5_Witness ==
    /\ ProposalCall
    /\ ret.err = "BallotExtractKey"
    /\ ret.ballot.InnerBallot \in InnerBallots
    /\ Recoverable(ProposalBytes(ret.proposal), ret.proposal.Signature)

\* C9: when Initialize is called on an Unset Ballot, its identifier equals
\* that of every other Ballot Initialize has run on with the same
\* InnerBallot, whatever the two Signatures are and whether or not either
\* recovery succeeded.
C9_SamePayloadSameID ==
    \A i \in Slots, j \in Slots :
        (BallotCall(i) /\ i # j
            /\ BallotID(ret.ballot) = EmptyBallotID
            /\ BallotID(ballots[j]) # EmptyBallotID
            /\ ballots[j].InnerBallot = ret.ballot.InnerBallot)
        => BallotID(ballots[i]) = BallotID(ballots[j])

C9_Witness ==
    \E i \in Slots, j \in Slots :
        /\ BallotCall(i) /\ i # j
        /\ ret.err = "BallotExtractKey"
        /\ ~SmesherID(ballots[j]).nil
        /\ ballots[j].InnerBallot = ballots[i].InnerBallot
        /\ ballots[i].InnerBallot \in InnerBallots
        /\ ballots[j].Signature # ballots[i].Signature
        /\ BallotID(ballots[i]) = BallotID(ballots[j])

\* C10: Ballot.Initialize leaves the InnerBallot payload and the Signature
\* as they were, on success and on every failure.
C10_InitializeFrame ==
    \A i \in Slots :
        BallotCall(i)
        => /\ ballots[i].InnerBallot = ret.ballot.InnerBallot
           /\ ballots[i].Signature = ret.ballot.Signature

C10_Witness ==
    \E i \in Slots :
        /\ BallotCall(i)
        /\ ret.err = "BallotExtractKey"
        /\ ret.ballot.Signature # <<>>
        /\ ret.ballot.InnerBallot \in InnerBallots
        /\ BallotID(ballots[i]) # BallotID(ret.ballot)

\* C11: no Initialize error is transient: when a call on a Ballot or a
\* Proposal has returned an error, a later call on the same object, no field
\* having been set in between, returns an error too.
C11_RetryFails ==
    (ret.op # "none" /\ ret.after \notin {"none", "nil"}) => ret.err # "nil"

\* the retry of a call that failed on the signer mismatch
C11_Witness ==
    /\ ProposalCall
    /\ ret.after = "InconsistentSmesher"
    /\ ret.err # "nil"
    /\ ProposalID(proposal) = EmptyProposalID
    /\ ret.proposal = proposal

\* C12: as long as Initialize has not been called on a Proposal or on its
\* embedded Ballot, whatever fields have been set, both identifiers are the
\* empty identifier.
C12_UninitializedIDEmpty ==
    /\ ret.called = {}
        => /\ ProposalID(proposal) = EmptyProposalID
           /\ BallotID(proposal.Ballot) = EmptyBallotID
    /\ <<"Proposal.Initialize", 0>> \notin ret.called
        => ProposalID(proposal) = EmptyProposalID

\* every field set, Initialize never called
C12_Witness ==
    /\ ret.called = {}
    /\ proposal.Ballot.InnerBallot \in InnerBallots
    /\ Recoverable(BallotBytes(proposal.Ballot), proposal.Ballot.Signature)
    /\ proposal.TxIDs # <<>>
    /\ Recoverable(ProposalBytes(proposal), proposal.Signature)
    /\ ProposalID(proposal) = EmptyProposalID
    /\ BallotID(proposal.Ballot) = EmptyBallotID

\* C13: a Proposal whose identifier is non-empty has an embedded Ballot whose
\* identifier is non-empty and whose cached signer is the signer recovered
\* from the Proposal's own Signature.
C13_ProposalSignerIsBallotSigner ==
    ProposalID(proposal) # EmptyProposalID
    => /\ BallotID(proposal.Ballot) # EmptyBallotID
       /\ ~SmesherID(proposal.Ballot).nil
       /\ Recoverable(ProposalBytes(proposal), proposal.Signature)
       /\ KeyEquals(SmesherID(proposal.Ballot),
                    Recovered(ProposalBytes(proposal), proposal.Signature))

C13_Witness ==
    /\ ProposalCall
    /\ ret.err = "nil"
    /\ ProposalID(ret.proposal) = EmptyProposalID
    /\ ProposalID(proposal) # EmptyProposalID
    /\ proposal.Signature = Sign(1, ProposalBytes(proposal))
    /\ proposal.Ballot.Signature = Sign(1, BallotBytes(proposal.Ballot))

\* C14: a Ballot is either Unset, with an empty identifier and no cached
\* signer, or Initialized, with a non-empty identifier and a cached signer.
C14_UnsetOrInitialized ==
    \A i \in Slots :
        BallotID(ballots[i]) # EmptyBallotID <=> ~SmesherID(ballots[i]).nil

----------------------------------------------------------------------------
(* Claims about the ordering *)

\* a is lexicographically less than b, on the identifiers' own bytes
LexLess(a, b) ==
    \E k \in 1 .. Len(a) :
        /\ a[k] < b[k]
        /\ \A m \in 1 .. (k - 1) : a[m] = b[m]

Ascending(s) == \A i \in 1 .. Len(s), j \in 1 .. Len(s) : i < j => ~LexLess(s[j], s[i])

Count(s, x) == Cardinality({i \in 1 .. Len(s) : s[i] = x})

IsPermutation(s, t) ==
    /\ Len(s) = Len(t)
    /\ \A x \in Range(s) \cup Range(t) : Count(s, x) = Count(t, x)

CompareCall == cmp.op \in {"BallotID.Compare", "ProposalID.Compare"}

\* C6: id.Compare(other) returns true if and only if other is
\* lexicographically less than id.
C6_CompareOtherLessThanID ==
    CompareCall => (cmp.result <=> LexLess(cmp.other, cmp.id))

StrictTotalOrder(S, less(_, _)) ==
    /\ \A a \in S : ~less(a, a)
    /\ \A a \in S, b \in S : less(a, b) => ~less(b, a)
    /\ \A a \in S, b \in S, c \in S : (less(a, b) /\ less(b, c)) => less(a, c)
    /\ \A a \in S, b \in S : a # b => (less(a, b) <=> ~less(b, a))

\* C7: Compare is a strict total order on the identifiers (irreflexive,
\* antisymmetric, transitive, exactly one of a.Compare(b), b.Compare(a) for
\* distinct a, b), and SortProposalIDs of any permutation of a list returns
\* one and the same sequence, a permutation of the list in lexicographic
\* order.
C7_StrictTotalOrderAndSort ==
    /\ StrictTotalOrder(Range(input), BallotIDCompare)
    /\ StrictTotalOrder(Range(input), ProposalIDCompare)
    /\ CompareCall => (cmp.result => cmp.id # cmp.other)
    /\ cmp.op = "SortProposalIDs"
        => /\ ids = SortProposalIDs(input)
           /\ IsPermutation(ids, input)
           /\ Ascending(ids)

C7_Witness ==
    /\ cmp.op = "SortProposalIDs"
    /\ Cardinality(Range(input)) >= 3
    /\ cmp.before # input
    /\ cmp.before # ids
    /\ input # ids

----------------------------------------------------------------------------
(* Claims about the stored projections *)

\* C8: a Ballot projected to a DBBallot and rebuilt by ToBallot equals the
\* initialized Ballot in identifier, Signature, InnerBallot and signer; a
\* Proposal projected to a DBProposal and rebuilt by ToProposal with the
\* separately stored Ballot equals the initialized Proposal in identifier,
\* Signature, TxIDs and embedded Ballot.
C8_RoundTrip ==
    /\ loadedBallot.some
        => /\ BallotID(loadedBallot.b) = BallotID(proposal.Ballot)
           /\ loadedBallot.b.Signature = proposal.Ballot.Signature
           /\ loadedBallot.b.InnerBallot = proposal.Ballot.InnerBallot
           /\ ~SmesherID(loadedBallot.b).nil
           /\ KeyEquals(SmesherID(loadedBallot.b), SmesherID(proposal.Ballot))
    /\ loadedProposal.some
        => /\ ProposalID(loadedProposal.p) = ProposalID(proposal)
           /\ loadedProposal.p.Signature = proposal.Signature
           /\ loadedProposal.p.TxIDs = proposal.TxIDs
           /\ loadedProposal.p.Ballot = proposal.Ballot

C8_Witness ==
    /\ loadedProposal.some
    /\ loadedBallot.some
    /\ ProposalID(loadedProposal.p) # EmptyProposalID
    /\ loadedProposal.p.TxIDs # <<>>
    /\ loadedProposal.p.Ballot.InnerBallot \in InnerBallots

\* C16: the Ballot ToBallot returns and the Proposal ToProposal returns
\* carry the identifier of the stored row; when that identifier is non-empty
\* the object is Initialized: Initialize on it fails with the
\* already-initialized error and changes nothing.
C16_LoadedIsInitialized ==
    /\ loadedBallot.some => BallotID(loadedBallot.b) = dbBallot.ID
    /\ loadedProposal.some => ProposalID(loadedProposal.p) = dbProposal.ID
    /\ (ret.op = "Ballot.Initialize" /\ ret.slot = LoadedSlot
            /\ dbBallot.ID # EmptyBallotID)
        => /\ ret.err = "BallotAlreadyInitialized"
           /\ loadedBallot.b = ret.ballot
    /\ (ret.op = "Proposal.Initialize" /\ ret.slot = LoadedSlot
            /\ dbProposal.ID # EmptyProposalID)
        => /\ ret.err = "ProposalAlreadyInitialized"
           /\ loadedProposal.p = ret.proposal

C16_Witness ==
    /\ ret.op = "Proposal.Initialize"
    /\ ret.slot = LoadedSlot
    /\ ret.err = "ProposalAlreadyInitialized"
    /\ <<"Ballot.Initialize", LoadedSlot>> \in ret.called
    /\ dbProposal.ID # EmptyProposalID
    /\ ProposalID(loadedProposal.p) = dbProposal.ID
    /\ loadedProposal.p.TxIDs # <<>>

----------------------------------------------------------------------------
(* Claims about concurrent calls *)

BothReturned == race.started /\ \A w \in Workers : race.w[w].pc = "done"

\* C15: when two workers call Initialize concurrently on the same populated
\* Unset Ballot with a recoverable signature, then once both calls have
\* returned the cached identifier and signer are those a single sequential
\* call produces.
C15_RaceEndsAsSequential ==
    (BothReturned
        /\ Recoverable(BallotBytes(race.start), race.start.Signature))
    => /\ BallotID(ballots[1]) = BallotID(BallotInitialize(race.start).b)
       /\ SmesherID(ballots[1]) = SmesherID(BallotInitialize(race.start).b)
       /\ ~SmesherID(ballots[1]).nil

\* both workers passed the guard and both wrote the two fields
C15_Witness ==
    /\ BothReturned
    /\ \A w \in Workers : race.w[w].err = "nil"
    /\ race.start.InnerBallot \in InnerBallots
    /\ race.start.Signature = Sign(1, BallotBytes(race.start))
    /\ SmesherID(ballots[1]) = NewPublicKey(<<1>>)

====
